---- MODULE Spec2Model ----
(***************************************************************************)
(* One call of generate_schedule (scheduler.py): the precondition check    *)
(* profile_prep, date parsing, the start-point search _find_start_smt      *)
(* (worker pool with sequential fallback), the refinement by fmin, the     *)
(* clip, the final simulation and the materialised schedule.               *)
(*                                                                         *)
(* The crop simulator, the minimiser fmin, the network and the file        *)
(* system are the environment: their outcomes are chosen with \E.          *)
(***************************************************************************)
EXTENDS Integers, Sequences, FiniteSets, TLC

\* ------------------------------------------------------------------ bounds
\* k, the length of a trigger vector (num_smts_to_optimize).
NumSmts == 2
\* The largest num_searches_for_starting_point explored.
MaxSearches == 2
\* The largest number of objective evaluations fmin makes before it returns.
MaxIter == 2
\* The largest number of daily values the final simulation reports.
MaxIrrLen == 3

\* ------------------------------------------------------- program constants
DefaultSmt == 50
ClipLo == 0
ClipHi == 100

\* ------------------------------------------------------------- value sets
\* Vectors np.random.rand(num_searches, num_smts) * 100 can draw: samples of
\* [0, 100)^k.
DrawVecs ==
    { [i \in 1..NumSmts |-> 0],
      [i \in 1..NumSmts |-> 99],
      [i \in 1..NumSmts |-> 10 * i] }
\* Vectors fmin can return: the search is unconstrained, so samples below,
\* inside and above [0, 100]^k.
RefVecs ==
    { [i \in 1..NumSmts |-> 0 - 5],
      [i \in 1..NumSmts |-> 105],
      [i \in 1..NumSmts |-> IF i = 1 THEN 0 - 5 ELSE 105],
      [i \in 1..NumSmts |-> 50] }
\* Mean dry yields the simulator can report.
Yields == {1, 2}
\* What one simulator run of _eval_smt can do: return a yield or raise.
Outcomes == {[ok |-> TRUE, yld |-> y] : y \in Yields} \cup {[ok |-> FALSE, yld |-> 0]}
\* Daily irrigation depths the final simulation can report.
IrrVals == {0, 5}
IrrSeqs == UNION {[1..n -> IrrVals] : n \in 0..MaxIrrLen}

\* A date string is modelled by the fields str.split('/') gives; NotInt is a
\* field int() rejects.
NotInt == 0 - 1
DateSamples ==
    { <<2024, 2, 28>>,      \* "2024/02/28"
      <<2024, 3, 1>>,       \* "2024/03/01"
      <<2024, 2, 30>>,      \* "2024/02/30": no such day
      <<2024>>,             \* "2024": month and day missing
      <<NotInt, 3, 1>> }    \* "20x4/03/01": the year is no integer

EmptyFn == [x \in {} |-> 0]
Extend(f, x, v) == [y \in (DOMAIN f) \cup {x} |-> IF y = x THEN v ELSE f[y]]

\* --------------------------------------------------------------- calendar
IsLeap(y) == (y % 4 = 0 /\ y % 100 # 0) \/ y % 400 = 0
DaysInMonth(y, m) ==
    IF m = 2 THEN (IF IsLeap(y) THEN 29 ELSE 28)
    ELSE IF m \in {4, 6, 9, 11} THEN 30 ELSE 31
\* A string strptime(s, "%Y/%m/%d") accepts.
ValidDate(s) ==
    /\ Len(s) = 3
    /\ s[1] # NotInt /\ s[1] >= 1
    /\ s[2] \in 1..12
    /\ s[3] \in 1..DaysInMonth(s[1], s[2])
NextDay(d) ==
    IF d[3] < DaysInMonth(d[1], d[2]) THEN <<d[1], d[2], d[3] + 1>>
    ELSE IF d[2] < 12 THEN <<d[1], d[2] + 1, 1>>
    ELSE <<d[1] + 1, 1, 1>>
DateLE(a, b) ==
    \/ a[1] < b[1]
    \/ a[1] = b[1] /\ a[2] < b[2]
    \/ a[1] = b[1] /\ a[2] = b[2] /\ a[3] <= b[3]
\* pd.date_range(start, end): every day from start to end, both included;
\* empty when end is before start.
RECURSIVE date_range(_, _)
date_range(start, end) ==
    IF DateLE(start, end) THEN <<start>> \o date_range(NextDay(start), end)
    ELSE <<>>

\* ------------------------------------------------------------------ state
VARIABLES
    pc,              \* position in generate_schedule
    err,             \* the exception that reached the caller, "none" if none
    sim_start_date,  \* argument sim_start_date
    sim_end_date,    \* argument sim_end_date
    num_searches,    \* argument num_searches_for_starting_point
    files,           \* which of the input files exist
    schedule_file,   \* the schedule artifact: [exists, rows]
    sim_year1, sim_year2,
    x0list,          \* _find_start_smt: the drawn batch
    rlist,           \* _find_start_smt: the objective values collected
    wres,            \* the pool's result slots: task index -> outcome
    evald,           \* what the simulator did for each vector of the batch
    fallback,        \* why the except branch was taken, "none" if it was not
    x0,              \* the start point _find_start_smt returned
    used_default,    \* the start point is the line-176 default
    iters,           \* objective evaluations fmin has made
    refined,         \* the vector _opt_smt returned, before the clip
    optimal_smts,    \* the refined, then clipped, vector
    final_smt,       \* the SMT list handed to the final IrrigationManagement
    irr_day_values,  \* water_flux['IrrDay'] of the final run
    result,          \* what generate_schedule returned: [smts, path]
    nsim,            \* simulator runs made so far
    acq_failed,      \* acquisition steps that could not produce their artifact
    trace,           \* the phases started, in order
    nfinished,       \* how many of them completed
    sim_windows,     \* the simulation windows the simulator has been run on
    \* profile_prep and Soil_client, step by step
    ppc,             \* position in profile_prep, "off" outside it
    db,              \* content of the files profile_prep checks: raw, climate, soil
    db0,             \* their content when profile_prep was entered
    save_in_place,   \* save_data's relative paths name the checked files
    soil_in_place,   \* Soil_client's path names the checked soil file
    weather_df,      \* where profile_prep's weather_df came from
    invoked,         \* the providers that were called
    perr,            \* the exception profile_prep raised: [type, path]
    depth_i,         \* get_data_async: index of the depth being fetched
    attempted,       \* get_data_async: the depths whose fetch was started
    results,         \* get_data_async: depth index -> payload
    soil_df          \* what get_data returned: [made, rows]

vars == <<pc, err, sim_start_date, sim_end_date, num_searches, files,
          schedule_file, sim_year1, sim_year2, x0list, rlist, wres, evald,
          fallback, x0, used_default, iters, refined, optimal_smts, final_smt,
          irr_day_values, result, nsim, acq_failed, trace, nfinished,
          sim_windows,
          ppc, db, db0, save_in_place, soil_in_place, weather_df, invoked,
          perr, depth_i, attempted, results, soil_df>>

\* The variables of the detailed model of profile_prep.
prepvars == <<ppc, db, db0, save_in_place, soil_in_place, weather_df, invoked,
              perr, depth_i, attempted, results, soil_df>>

\* The variables of generate_schedule.
mainvars == <<pc, err, sim_start_date, sim_end_date, num_searches, files,
              schedule_file, sim_year1, sim_year2, x0list, rlist, wres, evald,
              fallback, x0, used_default, iters, refined, optimal_smts,
              final_smt, irr_day_values, result, nsim, acq_failed, trace,
              nfinished, sim_windows>>

PhaseOrder == <<"precheck", "search", "refine", "clip", "materialize">>

\* ------------------------------------------------ profile_prep: the data
\* None of the soil client's tables; fetched values are never negative.
None == 0 - 1

\* soil_api_client.py lines 11-17: the depths in the order get_data_async
\* and the gap filling walk them, and their thickness (here in centimetres).
depths == <<"0-30cm", "30-60cm", "60-100cm", "100-200cm">>
depth_details == <<30, 30, 40, 100>>
NumDepths == Len(depths)
DepthIdx == 1..NumDepths

\* Lines 18-19: the properties asked of the API and those of the table.
api_properties == {"clay", "sand", "soc"}
df_properties == {"clay", "sand", "om"}

\* The mean the API reports for a property at a depth, when it reports one.
\* Every (depth, property) has its own value, so a table tells where each
\* of its values came from.
RawMean(d, prop) ==
    CASE prop = "clay" -> 100 * d + 10
      [] prop = "sand" -> 100 * d + 20
      [] prop = "soc"  -> 100 * d

\* The sets of properties a payload is taken to hold a mean for: none (an
\* empty `layers` list, or null means), one, two, all.
PropSubsets == {{}, {"clay"}, {"soc"}, {"sand", "soc"}, api_properties}

\* What the API can answer for one depth: an error (nothing is stored), a
\* payload whose `depths` list is empty ("malformed"), or a payload that
\* holds a mean for some of the properties.
Payload(d, has) ==
    [kind |-> "data",
     clay |-> IF "clay" \in has THEN RawMean(d, "clay") ELSE None,
     sand |-> IF "sand" \in has THEN RawMean(d, "sand") ELSE None,
     soc  |-> IF "soc" \in has THEN RawMean(d, "soc") ELSE None]
Malformed == [kind |-> "malformed", clay |-> None, sand |-> None, soc |-> None]
Payloads(d) == {Payload(d, has) : has \in PropSubsets} \cup {Malformed}

\* The files profile_prep looks at, and their content: absent, as found
\* ("old"), or written by this call ("new").
DbFiles == {"raw", "climate", "soil"}
NoExc == [type |-> "none", path |-> "none"]
NoTable == [made |-> FALSE, rows |-> <<>>]

\* profile_prep is not being stepped through.
PrepOff ==
    /\ ppc = "off"
    /\ db = [f \in DbFiles |-> "absent"] /\ db0 = [f \in DbFiles |-> "absent"]
    /\ save_in_place = FALSE /\ soil_in_place = FALSE
    /\ weather_df = "unset"
    /\ invoked = {}
    /\ perr = NoExc
    /\ depth_i = 0 /\ attempted = {}
    /\ results = EmptyFn
    /\ soil_df = NoTable

NoVec == <<>>
NoFile == [exists |-> FALSE, rows |-> <<>>]
\* A schedule left at the output location by an earlier run.
OldFile == [exists |-> TRUE, rows |-> <<[Year |-> 2023, Month |-> 1, Day |-> 1, IrrDay |-> 5]>>]
NoResult == [returned |-> FALSE, smts |-> NoVec]
InputFiles == {"raw", "climate", "soil"}

Init ==
    /\ pc = "precheck"
    /\ err = "none"
    /\ sim_start_date \in DateSamples
    /\ sim_end_date \in DateSamples
    /\ num_searches \in 0..MaxSearches
    /\ files \in SUBSET InputFiles
    /\ schedule_file \in {NoFile, OldFile}
    /\ sim_year1 = 0 /\ sim_year2 = 0
    /\ x0list = <<>> /\ rlist = <<>> /\ wres = EmptyFn /\ evald = EmptyFn
    /\ fallback = "none"
    /\ x0 = NoVec /\ used_default = FALSE
    /\ iters = 0
    /\ refined = NoVec /\ optimal_smts = NoVec /\ final_smt = NoVec
    /\ irr_day_values = <<>>
    /\ result = NoResult
    /\ nsim = 0
    /\ acq_failed = {}
    /\ trace = <<>>
    /\ nfinished = 0
    /\ sim_windows = {}
    /\ PrepOff

\* A raise that nothing in generate_schedule catches: the call ends.
Raise(e) == pc' = "error" /\ err' = e

\* ------------------------------------------------------- precondition check
CfgStates == {"ok", "missing"}
\* PowerAPI.get_weather: a table, an empty table (HTTP status other than
\* 200), or an exception of requests.get.
FetchOutcomes == {"ok", "empty", "raises"}
\* Soil_client.get_data: the table was saved, or None came back.
SoilOutcomes == {"saved", "none"}

\* profile_prep as it would be without the final check that the soil table
\* exists (lines 73-76).
profile_prep_no_soil_check(fs, cfg, fetch, soil_res, in_place) ==
    IF cfg = "missing" THEN [err |-> "FileNotFoundError", files |-> fs]
    ELSE IF "raw" \notin fs /\ fetch \in {"raises", "empty"}
        THEN [err |-> "RuntimeError", files |-> fs]
    ELSE
        LET fs1 == IF in_place THEN fs \cup {"raw", "climate"} ELSE fs
            fs2 == IF "soil" \notin fs1 /\ soil_res = "saved"
                   THEN fs1 \cup {"soil"} ELSE fs1
        IN  IF "climate" \notin fs2 THEN [err |-> "FileNotFoundError", files |-> fs2]
            ELSE [err |-> "none", files |-> fs2]

\* profile_prep() on the files fs. cfg: config.yaml can be opened; fetch: what
\* the weather provider does; soil_res: what the soil provider does;
\* in_place: save_data's relative paths "db/..." name the files the absolute
\* paths name. Gives the exception raised ("none" if none) and the files after.
profile_prep(fs, cfg, fetch, soil_res, in_place) ==
    IF cfg = "missing" THEN [err |-> "FileNotFoundError", files |-> fs]
    ELSE IF "raw" \notin fs /\ fetch = "raises"
        THEN [err |-> "RuntimeError", files |-> fs]
    ELSE IF "raw" \notin fs /\ fetch = "empty"
        \* reformat_climate_data indexes an empty date range
        THEN [err |-> "RuntimeError", files |-> fs]
    ELSE
        LET fs1 == IF in_place THEN fs \cup {"raw", "climate"} ELSE fs
            fs2 == IF "soil" \notin fs1 /\ soil_res = "saved"
                   THEN fs1 \cup {"soil"} ELSE fs1
        IN  IF "climate" \notin fs2 THEN [err |-> "FileNotFoundError", files |-> fs2]
            ELSE IF "soil" \notin fs2 THEN [err |-> "FileNotFoundError", files |-> fs2]
            ELSE [err |-> "none", files |-> fs2]

\* The acquisition steps that ran and left their artifact missing, told from
\* the environment alone.
WeatherAcqFails(fs, cfg, fetch) ==
    cfg = "ok" /\ "raw" \notin fs /\ fetch # "ok"
WeatherMisplaced(fs, cfg, fetch, in_place) ==
    cfg = "ok" /\ ~WeatherAcqFails(fs, cfg, fetch) /\ ~in_place /\ "climate" \notin fs
SoilAcqFails(fs, cfg, fetch, soil_res, in_place) ==
    /\ cfg = "ok" /\ ~WeatherAcqFails(fs, cfg, fetch)
    /\ "soil" \notin fs /\ soil_res = "none"
AcqFailures(fs, cfg, fetch, soil_res, in_place) ==
    (IF WeatherAcqFails(fs, cfg, fetch) THEN {"weather"} ELSE {})
    \cup (IF WeatherMisplaced(fs, cfg, fetch, in_place) THEN {"weather_path"} ELSE {})
    \cup (IF SoilAcqFails(fs, cfg, fetch, soil_res, in_place) THEN {"soil"} ELSE {})

\* generate_schedule, lines 248-255: both exceptions of profile_prep are
\* raised again with their own type.
PreconditionCheck ==
    /\ pc = "precheck"
    /\ \E cfg \in CfgStates, fetch \in FetchOutcomes,
          soil_res \in SoilOutcomes, in_place \in BOOLEAN :
        LET r == profile_prep(files, cfg, fetch, soil_res, in_place) IN
        /\ files' = r.files
        /\ acq_failed' = AcqFailures(files, cfg, fetch, soil_res, in_place)
        /\ trace' = Append(trace, "precheck")
        /\ IF r.err = "none"
           THEN pc' = "parse" /\ nfinished' = nfinished + 1 /\ UNCHANGED err
           ELSE Raise(r.err) /\ UNCHANGED nfinished
    /\ UNCHANGED prepvars
    /\ UNCHANGED <<sim_windows,
                   sim_start_date, sim_end_date, num_searches, schedule_file,
                   sim_year1, sim_year2, x0list, rlist, wres, evald, fallback,
                   x0, used_default, iters, refined, optimal_smts, final_smt,
                   irr_day_values, result, nsim>>

\* ------------------------------------------------------------ date parsing
\* int(s.split('/')[0]) succeeds.
YearParses(s) == s[1] # NotInt

\* Lines 257-261.
ParseDates ==
    /\ pc = "parse"
    /\ IF YearParses(sim_start_date) /\ YearParses(sim_end_date)
       THEN /\ sim_year1' = sim_start_date[1]
            /\ sim_year2' = sim_end_date[1]
            /\ pc' = "search"
            /\ UNCHANGED err
       ELSE Raise("ValueError") /\ UNCHANGED <<sim_year1, sim_year2>>
    /\ UNCHANGED prepvars
    /\ UNCHANGED <<sim_windows,
                   sim_start_date, sim_end_date, num_searches, files,
                   schedule_file, x0list, rlist, wres, evald, fallback, x0,
                   used_default, iters, refined, optimal_smts, final_smt,
                   irr_day_values, result, nsim, acq_failed, trace, nfinished>>

\* ------------------------------------------------------ start-point search
\* _eval_smt with is_test_run = False, line 120: the negated mean yield.
\* Mean seasonal irrigation figures a run can report (line 117).
TirrVals == {0, 30}

\* _eval_smt as it would be if it returned the reward itself.
eval_smt_unnegated(yld, tirr, is_test_run) ==
    IF is_test_run THEN <<yld, tirr, yld>> ELSE yld

\* Lines 113-120: what _eval_smt returns from the mean yield `yld` and the
\* mean seasonal irrigation `tirr` of its run; reward = yld (line 114).
eval_smt(yld, tirr, is_test_run) ==
    IF is_test_run THEN <<yld, tirr, yld>> ELSE 0 - yld

\* The value a successful run hands to its caller: the searches and the
\* refiner call _eval_smt with is_test_run = False (lines 93, 153).
Objective(o) == eval_smt(o.yld, 0, FALSE)

\* _run_model_opt as it would be if its model ended at mid-year.
EvalWindowHalfYear(y1, y2) == [start |-> <<y1, 1, 1>>, end |-> <<y2, 6, 30>>]

\* Lines 66-68: the window of the model _run_model_opt builds for every
\* evaluation of the search and of the refinement.
EvalWindow(y1, y2) == [start |-> <<y1, 1, 1>>, end |-> <<y2, 12, 31>>]

\* Lines 313-315: the window of the final model.
FinalWindow(s, e) == [start |-> s, end |-> e]

\* np.argmin as it would be with the last least value taken on a tie.
ArgMinLast(r) ==
    CHOOSE i \in 1..Len(r) :
        /\ \A j \in 1..Len(r) : r[i] <= r[j]
        /\ \A j \in (i + 1)..Len(r) : r[j] > r[i]

\* np.argmin: the first index holding the least value.
ArgMin(r) ==
    CHOOSE i \in 1..Len(r) :
        /\ \A j \in 1..Len(r) : r[i] <= r[j]
        /\ \A j \in 1..(i - 1) : r[j] > r[i]

\* The simulator is deterministic: a vector it has run before gives what it
\* gave before; a new vector gives any outcome.
SimOutcomes(v) == IF v \in DOMAIN evald THEN {evald[v]} ELSE Outcomes

\* Line 145 and lines 156-157: the batch is drawn, the task list built.
SearchDraw ==
    /\ pc = "search"
    /\ x0list' \in [1..num_searches -> DrawVecs]
    /\ rlist' = <<>>
    /\ pc' = "pool"
    /\ trace' = Append(trace, "search")
    /\ UNCHANGED prepvars
    /\ UNCHANGED <<sim_windows,
                   err, sim_start_date, sim_end_date, num_searches, files,
                   schedule_file, sim_year1, sim_year2, wres, evald, fallback,
                   x0, used_default, iters, refined, optimal_smts, final_smt,
                   irr_day_values, result, nsim, acq_failed, nfinished>>

\* The except branch as it would be if it resumed from the results the pool
\* had already produced: the longest run of finished leading tasks.
FallbackKeepsPartial(slots) ==
    LET k == CHOOSE n \in 0..Cardinality(DOMAIN slots) :
                 /\ \A i \in 1..n : i \in DOMAIN slots /\ slots[i].ok
                 /\ ~((n + 1) \in DOMAIN slots /\ slots[n + 1].ok)
    IN  [i \in 1..k |-> Objective(slots[i])]

\* Line 168: the list the except branch starts from, whatever the pool's
\* result slots held.
FallbackStart(slots) == <<>>

\* Lines 166-168: the except branch is entered; the pool is gone.
EnterFallback(cause) ==
    /\ pc' = "seq"
    /\ rlist' = FallbackStart(wres)
    /\ wres' = EmptyFn
    /\ fallback' = cause

\* Line 164: multiprocessing.Pool(processes=min(num_searches, cpu_count())).
\* Zero processes is a ValueError; otherwise the operating system decides.
PoolCreate ==
    /\ pc = "pool"
    /\ \E created \in BOOLEAN :
        /\ num_searches = 0 => ~created
        /\ IF created
           THEN pc' = "starmap" /\ wres' = EmptyFn /\ UNCHANGED <<rlist, fallback>>
           ELSE EnterFallback("construct")
    /\ UNCHANGED prepvars
    /\ UNCHANGED <<sim_windows,
                   err, sim_start_date, sim_end_date, num_searches, files,
                   schedule_file, sim_year1, sim_year2, x0list, evald, x0,
                   used_default, iters, refined, optimal_smts, final_smt,
                   irr_day_values, result, nsim, acq_failed, trace, nfinished>>

\* A worker as it would be if every evaluation left its output at the
\* schedule's location.
WorkerEvalWritesSchedule ==
    /\ pc = "starmap"
    /\ \E i \in (1..Len(x0list)) \ DOMAIN wres :
        \E o \in SimOutcomes(x0list[i]) :
            /\ wres' = Extend(wres, i, o)
            /\ evald' = Extend(evald, x0list[i], o)
    /\ nsim' = nsim + 1
    /\ schedule_file' = [exists |-> TRUE, rows |-> <<>>]
    /\ sim_windows' = sim_windows \cup {EvalWindow(sim_year1, sim_year2)}
    /\ UNCHANGED prepvars
    /\ UNCHANGED <<pc, err, sim_start_date, sim_end_date, num_searches, files,
                   sim_year1, sim_year2, x0list, rlist, fallback,
                   x0, used_default, iters, refined, optimal_smts, final_smt,
                   irr_day_values, result, acq_failed, trace, nfinished>>

\* One worker runs _eval_smt_start on one task of the starmap; the tasks
\* finish in any order, each into its own slot.
WorkerEval ==
    /\ pc = "starmap"
    /\ \E i \in (1..Len(x0list)) \ DOMAIN wres :
        \E o \in SimOutcomes(x0list[i]) :
            /\ wres' = Extend(wres, i, o)
            /\ evald' = Extend(evald, x0list[i], o)
    /\ nsim' = nsim + 1
    /\ sim_windows' = sim_windows \cup {EvalWindow(sim_year1, sim_year2)}
    /\ UNCHANGED prepvars
    /\ UNCHANGED <<pc, err, sim_start_date, sim_end_date, num_searches, files,
                   schedule_file, sim_year1, sim_year2, x0list, rlist, fallback,
                   x0, used_default, iters, refined, optimal_smts, final_smt,
                   irr_day_values, result, acq_failed, trace, nfinished>>

\* starmap as it would be if it handed the values back last task first.
StarmapResultsReversed(slots) ==
    [i \in DOMAIN slots |-> Objective(slots[Cardinality(DOMAIN slots) + 1 - i])]

\* What starmap returns: the tasks' values in task order.
StarmapResults(slots) == [i \in DOMAIN slots |-> Objective(slots[i])]

AllTasksDone == DOMAIN wres = 1..Len(x0list)

\* starmap as it would be if it delivered as soon as the leading tasks had
\* returned, without waiting for the rest.
StarmapReturnEarly ==
    /\ pc = "starmap"
    /\ \E k \in 1..Len(x0list) : DOMAIN wres = 1..k
    /\ \A i \in DOMAIN wres : wres[i].ok
    /\ rlist' = StarmapResults(wres)
    /\ pc' = "select"
    /\ UNCHANGED prepvars
    /\ UNCHANGED <<sim_windows,
                   err, sim_start_date, sim_end_date, num_searches, files,
                   schedule_file, sim_year1, sim_year2, x0list, wres, evald,
                   fallback, x0, used_default, iters, refined, optimal_smts,
                   final_smt, irr_day_values, result, nsim, acq_failed, trace,
                   nfinished>>

\* Line 165: every task returned a value; starmap delivers the list.
StarmapReturn ==
    /\ pc = "starmap"
    /\ AllTasksDone
    /\ \A i \in DOMAIN wres : wres[i].ok
    /\ rlist' = StarmapResults(wres)
    /\ pc' = "select"
    /\ UNCHANGED prepvars
    /\ UNCHANGED <<sim_windows,
                   err, sim_start_date, sim_end_date, num_searches, files,
                   schedule_file, sim_year1, sim_year2, x0list, wres, evald,
                   fallback, x0, used_default, iters, refined, optimal_smts, final_smt,
                   irr_day_values, result, nsim, acq_failed, trace, nfinished>>

\* The pool block as it would be if a task's exception were not caught.
StarmapRaisePropagates ==
    /\ pc = "starmap"
    /\ \E i \in DOMAIN wres : ~wres[i].ok
    /\ Raise("SimError")
    /\ UNCHANGED prepvars
    /\ UNCHANGED <<sim_windows,
                   sim_start_date, sim_end_date, num_searches, files,
                   schedule_file, sim_year1, sim_year2, x0list, rlist, wres,
                   evald, fallback, x0, used_default, iters, refined,
                   optimal_smts, final_smt, irr_day_values, result, nsim,
                   acq_failed, trace, nfinished>>

\* Lines 165-166: a task raised; starmap raises its exception again (the
\* tasks sharing its chunk are skipped, the others may still be running), and
\* "except Exception" catches it.
StarmapRaise ==
    /\ pc = "starmap"
    /\ \E i \in DOMAIN wres : ~wres[i].ok
    /\ EnterFallback("candidate")
    /\ UNCHANGED prepvars
    /\ UNCHANGED <<sim_windows,
                   err, sim_start_date, sim_end_date, num_searches, files,
                   schedule_file, sim_year1, sim_year2, x0list, evald, x0,
                   used_default, iters, refined, optimal_smts, final_smt,
                   irr_day_values, result, nsim, acq_failed, trace, nfinished>>

\* Lines 165-166: the pool itself fails before starmap has delivered.
PoolBackendFail ==
    /\ pc = "starmap"
    /\ EnterFallback("backend")
    /\ UNCHANGED prepvars
    /\ UNCHANGED <<sim_windows,
                   err, sim_start_date, sim_end_date, num_searches, files,
                   schedule_file, sim_year1, sim_year2, x0list, evald, x0,
                   used_default, iters, refined, optimal_smts, final_smt,
                   irr_day_values, result, nsim, acq_failed, trace, nfinished>>

\* Line 169: the task the for loop takes after `done` tasks, of n.
NextTask(n, done) == done + 1

\* The serial loop as it would be if a vector already simulated in this
\* batch were answered from the stored result.
SeqEvalMemoized ==
    /\ pc = "seq"
    /\ Len(rlist) < Len(x0list)
    /\ LET v == x0list[NextTask(Len(x0list), Len(rlist))] IN
        \E o \in SimOutcomes(v) :
            /\ evald' = Extend(evald, v, o)
            /\ IF o.ok
               THEN rlist' = Append(rlist, Objective(o)) /\ UNCHANGED <<pc, err>>
               ELSE Raise("SimError") /\ UNCHANGED rlist
    /\ nsim' = IF x0list[NextTask(Len(x0list), Len(rlist))] \in DOMAIN evald
               THEN nsim ELSE nsim + 1
    /\ sim_windows' = sim_windows \cup {EvalWindow(sim_year1, sim_year2)}
    /\ UNCHANGED prepvars
    /\ UNCHANGED <<sim_start_date, sim_end_date, num_searches, files,
                   schedule_file, sim_year1, sim_year2, x0list, wres, fallback,
                   x0, used_default, iters, refined, optimal_smts, final_smt,
                   irr_day_values, result, acq_failed, trace, nfinished>>

\* Lines 169-171: one pass of the serial loop. An exception of _eval_smt_start
\* is raised inside the except branch: nothing catches it.
SeqEval ==
    /\ pc = "seq"
    /\ Len(rlist) < Len(x0list)
    /\ LET v == x0list[NextTask(Len(x0list), Len(rlist))] IN
        \E o \in SimOutcomes(v) :
            /\ evald' = Extend(evald, v, o)
            /\ IF o.ok
               THEN rlist' = Append(rlist, Objective(o)) /\ UNCHANGED <<pc, err>>
               ELSE Raise("SimError") /\ UNCHANGED rlist
    /\ nsim' = nsim + 1
    /\ sim_windows' = sim_windows \cup {EvalWindow(sim_year1, sim_year2)}
    /\ UNCHANGED prepvars
    /\ UNCHANGED <<sim_start_date, sim_end_date, num_searches, files,
                   schedule_file, sim_year1, sim_year2, x0list, wres, fallback,
                   x0, used_default, iters, refined, optimal_smts, final_smt,
                   irr_day_values, result, acq_failed, trace, nfinished>>

\* Line 176: the default start point.
DefaultStart == [i \in 1..NumSmts |-> DefaultSmt]

\* The selection as it would be if the default were returned after every
\* fallback.
SelectDefaultAfterFallback ==
    /\ \/ pc = "select"
       \/ pc = "seq" /\ Len(rlist) = Len(x0list)
    /\ IF rlist = <<>> \/ fallback # "none"
       THEN x0' = DefaultStart /\ used_default' = TRUE
       ELSE x0' = x0list[ArgMin(rlist)] /\ used_default' = FALSE
    /\ pc' = "search_returned"
    /\ nfinished' = nfinished + 1
    /\ UNCHANGED prepvars
    /\ UNCHANGED <<sim_windows,
                   err, sim_start_date, sim_end_date, num_searches, files,
                   schedule_file, sim_year1, sim_year2, x0list, rlist, wres,
                   evald, fallback, iters, refined, optimal_smts, final_smt,
                   irr_day_values, result, nsim, acq_failed, trace>>

\* Lines 173-179: the selection, after starmap delivered or the loop ended.
Select ==
    /\ \/ pc = "select"
       \/ pc = "seq" /\ Len(rlist) = Len(x0list)
    /\ IF rlist = <<>>
       THEN x0' = DefaultStart /\ used_default' = TRUE
       ELSE x0' = x0list[ArgMin(rlist)] /\ used_default' = FALSE
    /\ pc' = "search_returned"
    /\ nfinished' = nfinished + 1
    /\ UNCHANGED prepvars
    /\ UNCHANGED <<sim_windows,
                   err, sim_start_date, sim_end_date, num_searches, files,
                   schedule_file, sim_year1, sim_year2, x0list, rlist, wres,
                   evald, fallback, iters, refined, optimal_smts, final_smt,
                   irr_day_values, result, nsim, acq_failed, trace>>

\* ------------------------------------------------------------- refinement
\* Line 216: _find_start_smt has returned, its locals are gone; fmin is called.
RefineStart ==
    /\ pc = "search_returned"
    /\ pc' = "refine"
    /\ trace' = Append(trace, "refine")
    /\ iters' = 0
    /\ x0list' = <<>> /\ rlist' = <<>> /\ wres' = EmptyFn /\ evald' = EmptyFn
    /\ fallback' = "none"
    /\ UNCHANGED prepvars
    /\ UNCHANGED <<sim_windows,
                   err, sim_start_date, sim_end_date, num_searches, files,
                   schedule_file, sim_year1, sim_year2, x0, used_default,
                   refined, optimal_smts, final_smt, irr_day_values, result,
                   nsim, acq_failed, nfinished>>

\* The refinement as it would be if a failed evaluation sent the run back to
\* the start-point search.
RefineEvalRetries ==
    /\ pc = "refine"
    /\ iters < MaxIter
    /\ iters' = iters + 1
    /\ nsim' = nsim + 1
    /\ \E ok \in BOOLEAN :
        IF ok THEN UNCHANGED <<pc, err>> ELSE pc' = "search" /\ UNCHANGED err
    /\ sim_windows' = sim_windows \cup {EvalWindow(sim_year1, sim_year2)}
    /\ UNCHANGED prepvars
    /\ UNCHANGED <<sim_start_date, sim_end_date, num_searches, files,
                   schedule_file, sim_year1, sim_year2, x0list, rlist, wres,
                   evald, fallback, x0, used_default, refined, optimal_smts,
                   final_smt, irr_day_values, result, acq_failed, trace,
                   nfinished>>

\* Line 216: fmin evaluates _eval_smt at one more point of its simplex; an
\* exception of the simulator passes through fmin, _opt_smt and
\* generate_schedule.
RefineEval ==
    /\ pc = "refine"
    /\ iters < MaxIter
    /\ iters' = iters + 1
    /\ nsim' = nsim + 1
    /\ \E ok \in BOOLEAN :
        IF ok THEN UNCHANGED <<pc, err>> ELSE Raise("SimError")
    /\ sim_windows' = sim_windows \cup {EvalWindow(sim_year1, sim_year2)}
    /\ UNCHANGED prepvars
    /\ UNCHANGED <<sim_start_date, sim_end_date, num_searches, files,
                   schedule_file, sim_year1, sim_year2, x0list, rlist, wres,
                   evald, fallback, x0, used_default, refined, optimal_smts,
                   final_smt, irr_day_values, result, acq_failed, trace,
                   nfinished>>

\* Lines 216-218: fmin has converged; it returns the start point or any other
\* vector of the unconstrained space.
RefineReturn ==
    /\ pc = "refine"
    /\ iters >= 1
    /\ \E v \in RefVecs \cup {x0} :
        /\ refined' = v
        /\ optimal_smts' = v
    /\ x0' = NoVec /\ used_default' = FALSE
    /\ pc' = "refined"
    /\ nfinished' = nfinished + 1
    /\ UNCHANGED prepvars
    /\ UNCHANGED <<sim_windows,
                   err, sim_start_date, sim_end_date, num_searches, files,
                   schedule_file, sim_year1, sim_year2, x0list, rlist, wres,
                   evald, fallback, iters, final_smt, irr_day_values, result,
                   nsim, acq_failed, trace>>

\* ------------------------------------------------------------------- clip
\* np.clip as it would be with the upper bound alone.
clipUpperOnly(v) ==
    [i \in DOMAIN v |-> IF v[i] > ClipHi THEN ClipHi ELSE v[i]]

\* np.clip(v, 0, 100).
clip(v) ==
    [i \in DOMAIN v |->
        IF v[i] < ClipLo THEN ClipLo
        ELSE IF v[i] > ClipHi THEN ClipHi ELSE v[i]]

\* Line 283.
Clip ==
    /\ pc = "refined"
    /\ optimal_smts' = clip(optimal_smts)
    /\ pc' = "clipped"
    /\ trace' = Append(trace, "clip")
    /\ nfinished' = nfinished + 1
    /\ UNCHANGED prepvars
    /\ UNCHANGED <<sim_windows,
                   err, sim_start_date, sim_end_date, num_searches, files,
                   schedule_file, sim_year1, sim_year2, x0list, rlist, wres,
                   evald, fallback, x0, used_default, iters, refined,
                   final_smt, irr_day_values, result, nsim, acq_failed>>

\* -------------------------------------------------------- materialisation
\* The final run as it would be if the output file were opened for writing
\* before the simulation.
FinalRunTruncatesFirst ==
    /\ pc = "clipped"
    /\ trace' = Append(trace, "materialize")
    /\ final_smt' = optimal_smts
    /\ schedule_file' = [exists |-> TRUE, rows |-> <<>>]
    /\ IF ~(ValidDate(sim_start_date) /\ ValidDate(sim_end_date))
       THEN Raise("ValueError") /\ UNCHANGED <<irr_day_values, nsim>>
       ELSE /\ nsim' = nsim + 1
            /\ \E ok \in BOOLEAN :
                IF ok
                THEN /\ irr_day_values' \in IrrSeqs
                     /\ pc' = "simulated"
                     /\ UNCHANGED err
                ELSE Raise("SimError") /\ UNCHANGED irr_day_values
    /\ sim_windows' =
            IF ValidDate(sim_start_date) /\ ValidDate(sim_end_date)
            THEN sim_windows \cup {FinalWindow(sim_start_date, sim_end_date)}
            ELSE sim_windows
    /\ UNCHANGED prepvars
    /\ UNCHANGED <<sim_start_date, sim_end_date, num_searches, files,
                   sim_year1, sim_year2, x0list, rlist, wres,
                   evald, fallback, x0, used_default, iters, refined,
                   optimal_smts, result, acq_failed, nfinished>>

\* Lines 288-323: the final model is built from the clipped vector and the
\* date strings as given, and run. The AquaCropModel constructor rejects a
\* date string that strptime does not read as %Y/%m/%d; the run itself may
\* raise.
FinalRun ==
    /\ pc = "clipped"
    /\ trace' = Append(trace, "materialize")
    /\ final_smt' = optimal_smts
    /\ IF ~(ValidDate(sim_start_date) /\ ValidDate(sim_end_date))
       THEN Raise("ValueError") /\ UNCHANGED <<irr_day_values, nsim>>
       ELSE /\ nsim' = nsim + 1
            /\ \E ok \in BOOLEAN :
                IF ok
                THEN /\ irr_day_values' \in IrrSeqs
                     /\ pc' = "simulated"
                     /\ UNCHANGED err
                ELSE Raise("SimError") /\ UNCHANGED irr_day_values
    /\ sim_windows' =
            IF ValidDate(sim_start_date) /\ ValidDate(sim_end_date)
            THEN sim_windows \cup {FinalWindow(sim_start_date, sim_end_date)}
            ELSE sim_windows
    /\ UNCHANGED prepvars
    /\ UNCHANGED <<sim_start_date, sim_end_date, num_searches, files,
                   schedule_file, sim_year1, sim_year2, x0list, rlist, wres,
                   evald, fallback, x0, used_default, iters, refined,
                   optimal_smts, result, acq_failed, nfinished>>

Min(a, b) == IF a <= b THEN a ELSE b

\* The schedule as it would be with the last aligned day left at zero.
BuildScheduleOffByOne(dates, vals) ==
    LET len_to_use == Min(Len(vals), Len(dates)) IN
    [i \in 1..Len(dates) |->
        [Year |-> dates[i][1], Month |-> dates[i][2], Day |-> dates[i][3],
         IrrDay |-> IF i < len_to_use THEN vals[i] ELSE 0]]

\* Lines 325-339: one row per day of the window, IrrDay 0.0 except for the
\* first len_to_use days, which take the simulator's values by position.
BuildSchedule(dates, vals) ==
    LET len_to_use == Min(Len(vals), Len(dates)) IN
    [i \in 1..Len(dates) |->
        [Year |-> dates[i][1], Month |-> dates[i][2], Day |-> dates[i][3],
         IrrDay |-> IF i <= len_to_use THEN vals[i] ELSE 0]]

\* Lines 325-345: the schedule is built, written over whatever the output
\* location held, and the clipped vector is returned. Opening the output
\* file may fail.
Materialize ==
    /\ pc = "simulated"
    /\ \E written \in BOOLEAN :
        IF written
        THEN /\ schedule_file' =
                    [exists |-> TRUE,
                     rows |-> BuildSchedule(date_range(sim_start_date, sim_end_date),
                                            irr_day_values)]
             /\ result' = [returned |-> TRUE, smts |-> optimal_smts]
             /\ pc' = "done"
             /\ nfinished' = nfinished + 1
             /\ UNCHANGED err
        ELSE Raise("OSError") /\ UNCHANGED <<schedule_file, result, nfinished>>
    /\ UNCHANGED prepvars
    /\ UNCHANGED <<sim_windows,
                   sim_start_date, sim_end_date, num_searches, files,
                   sim_year1, sim_year2, x0list, rlist, wres, evald, fallback,
                   x0, used_default, iters, refined, optimal_smts, final_smt,
                   irr_day_values, nsim, acq_failed, trace>>

\* ---------------------------------------------------------- specification
Next ==
    \/ PreconditionCheck
    \/ ParseDates
    \/ SearchDraw
    \/ PoolCreate
    \/ WorkerEval
    \/ StarmapReturn
    \/ StarmapRaise
    \/ PoolBackendFail
    \/ SeqEval
    \/ Select
    \/ RefineStart
    \/ RefineEval
    \/ RefineReturn
    \/ Clip
    \/ FinalRun
    \/ Materialize

Spec == Init /\ [][Next]_vars

\* --------------------------------------- Soil_client: extraction and filling
ConversionFactor == 10
SocDivisor == 100

SetMax(S) == CHOOSE x \in S : \A y \in S : y <= x
SetMin(S) == CHOOSE x \in S : \A y \in S : x <= y

\* Lines 63-65: a layer with nothing in it.
EmptyLayer == [prop \in df_properties |-> None]
IsEmpty(layer) == \A prop \in df_properties : layer[prop] = None

\* Lines 74-89: the values drawn from one payload: clay and sand are the
\* mean over the conversion factor, om is the soc mean over 100.
ExtractLayer(pl) ==
    [prop \in df_properties |->
        CASE prop = "clay" ->
                IF pl.clay = None THEN None ELSE pl.clay \div ConversionFactor
          [] prop = "sand" ->
                IF pl.sand = None THEN None ELSE pl.sand \div ConversionFactor
          [] prop = "om" ->
                IF pl.soc = None THEN None ELSE pl.soc \div SocDivisor]

\* Lines 60-91 and 97-107: depth_data before any filling; a depth with no
\* payload is initialised empty.
InitialDepthData(res) ==
    [d \in DepthIdx |->
        IF d \in DOMAIN res THEN ExtractLayer(res[d]) ELSE EmptyLayer]

\* Lines 110-124: completely empty layers, in depth order, take every
\* property of the nearest layer that holds data at that moment; of two
\* equally near layers min() takes the first of the list, the shallower.
RECURSIVE FillEmptyLayers(_, _)
FillEmptyLayers(dd, d) ==
    IF d > NumDepths THEN dd
    ELSE
        LET available == {x \in DepthIdx : ~IsEmpty(dd[x])}
            dist(x) == IF x >= d THEN x - d ELSE d - x
            nearest == CHOOSE x \in available :
                          \A y \in available :
                              \/ dist(x) < dist(y)
                              \/ dist(x) = dist(y) /\ x <= y
        IN  IF IsEmpty(dd[d]) /\ available # {}
            THEN FillEmptyLayers([dd EXCEPT ![d] = dd[nearest]], d + 1)
            ELSE FillEmptyLayers(dd, d + 1)

\* The per-property filling as it would be without the look downwards.
FillWithinStepAboveOnly(dd, i) ==
    [dd EXCEPT ![i] =
        [prop \in df_properties |->
            IF dd[i][prop] # None THEN dd[i][prop]
            ELSE LET above == {j \in 1..(i - 1) : dd[j][prop] # None}
                 IN  IF above # {} THEN dd[SetMax(above)][prop] ELSE None]]

\* Lines 128-156: at depth i every property that is still None takes the
\* nearest value above, and the nearest value below if there is none above.
FillWithinStep(dd, i) ==
    [dd EXCEPT ![i] =
        [prop \in df_properties |->
            IF dd[i][prop] # None THEN dd[i][prop]
            ELSE LET above == {j \in 1..(i - 1) : dd[j][prop] # None}
                     below == {j \in (i + 1)..NumDepths : dd[j][prop] # None}
                 IN  IF above # {} THEN dd[SetMax(above)][prop]
                     ELSE IF below # {} THEN dd[SetMin(below)][prop]
                     ELSE None]]

\* Line 127: the loop over the depths, each pass seeing the fills before it.
RECURSIVE FillWithin(_, _)
FillWithin(dd, i) ==
    IF i > NumDepths THEN dd ELSE FillWithin(FillWithinStep(dd, i), i + 1)

\* Lines 159-174: the rows of the DataFrame, in the order of `depths`.
SoilRows(dd) ==
    [d \in DepthIdx |->
        [depth |-> depths[d], thickness |-> depth_details[d],
         clay |-> dd[d]["clay"], sand |-> dd[d]["sand"], om |-> dd[d]["om"]]]

\* extract_and_save_soil_data up to the DataFrame (lines 58-174, 195-197):
\* a malformed payload raises inside the try and None is returned; so is
\* None when no payload holds a value (line 93).
ExtractTable(res) ==
    IF \E d \in DOMAIN res : res[d].kind = "malformed" THEN NoTable
    ELSE IF \A d \in DOMAIN res : IsEmpty(ExtractLayer(res[d])) THEN NoTable
    ELSE [made |-> TRUE,
          rows |-> SoilRows(FillWithin(FillEmptyLayers(InitialDepthData(res), 1), 1))]

\* ------------------------------------------------- profile_prep, step by step
PrepRaise(t, path) == ppc' = "raised" /\ perr' = [type |-> t, path |-> path]

\* profile_prep is entered with any of the three files present or absent.
InitPrep ==
    /\ pc = "precheck" /\ err = "none"
    /\ sim_start_date = <<2024, 2, 28>> /\ sim_end_date = <<2024, 3, 1>>
    /\ num_searches = 0
    /\ files = {}
    /\ schedule_file = NoFile
    /\ sim_year1 = 0 /\ sim_year2 = 0
    /\ x0list = <<>> /\ rlist = <<>> /\ wres = EmptyFn /\ evald = EmptyFn
    /\ fallback = "none"
    /\ x0 = NoVec /\ used_default = FALSE
    /\ iters = 0
    /\ refined = NoVec /\ optimal_smts = NoVec /\ final_smt = NoVec
    /\ irr_day_values = <<>>
    /\ result = NoResult
    /\ nsim = 0
    /\ acq_failed = {}
    /\ trace = <<>>
    /\ nfinished = 0
    /\ sim_windows = {}
    /\ ppc = "config"
    /\ db \in [DbFiles -> {"absent", "old"}]
    /\ db0 = db
    /\ save_in_place \in BOOLEAN
    /\ soil_in_place \in BOOLEAN
    /\ weather_df = "unset"
    /\ invoked = {}
    /\ perr = NoExc
    /\ depth_i = 0 /\ attempted = {}
    /\ results = EmptyFn
    /\ soil_df = NoTable

\* profile_prep.py line 39: config.yaml is opened; a missing file is a
\* FileNotFoundError, raised again as it is (line 80).
PrepLoadConfig ==
    /\ ppc = "config"
    /\ \E cfg \in CfgStates :
        IF cfg = "ok" THEN ppc' = "weather" /\ UNCHANGED perr
        ELSE PrepRaise("FileNotFoundError", "config")
    /\ UNCHANGED <<db, db0, save_in_place, soil_in_place, weather_df, invoked,
                   depth_i, attempted, results, soil_df>>
    /\ UNCHANGED mainvars

\* Lines 45-58: the raw weather table is read if its file exists, fetched
\* otherwise; a fetch that raises or gives an empty table ends in the
\* RuntimeError of line 83.
PrepWeather ==
    /\ ppc = "weather"
    /\ IF db["raw"] # "absent"
       THEN /\ weather_df' = "loaded"
            /\ ppc' = "save"
            /\ UNCHANGED <<invoked, perr>>
       ELSE /\ invoked' = invoked \cup {"weather"}
            /\ \E fetch \in FetchOutcomes :
                IF fetch = "ok"
                THEN weather_df' = "fetched" /\ ppc' = "save" /\ UNCHANGED perr
                ELSE PrepRaise("RuntimeError", "none") /\ UNCHANGED weather_df
    /\ UNCHANGED <<db, db0, save_in_place, soil_in_place, depth_i, attempted,
                   results, soil_df>>
    /\ UNCHANGED mainvars

\* Line 60, util.py lines 54-57: the raw and the climate tables are written,
\* whichever way weather_df was obtained, to paths relative to the working
\* directory.
PrepSave ==
    /\ ppc = "save"
    /\ db' = IF save_in_place
             THEN [db EXCEPT !["raw"] = "new", !["climate"] = "new"]
             ELSE db
    /\ ppc' = "soil"
    /\ UNCHANGED <<db0, save_in_place, soil_in_place, weather_df, invoked,
                   perr, depth_i, attempted, results, soil_df>>
    /\ UNCHANGED mainvars

\* Lines 62-67: the soil client is called only if the soil file is absent.
PrepSoilBranch ==
    /\ ppc = "soil"
    /\ IF db["soil"] = "absent"
       THEN /\ invoked' = invoked \cup {"soil"}
            /\ ppc' = "fetch"
            /\ depth_i' = 1
       ELSE /\ ppc' = "check"
            /\ UNCHANGED <<invoked, depth_i>>
    /\ UNCHANGED <<db, db0, save_in_place, soil_in_place, weather_df, perr,
                   attempted, results, soil_df>>
    /\ UNCHANGED mainvars

\* soil_api_client.py lines 204, 214-216: the event loop or the client
\* cannot be set up; get_data catches the exception and returns None.
SoilRunFails ==
    /\ ppc = "fetch"
    /\ depth_i = 1
    /\ soil_df' = NoTable
    /\ ppc' = "check"
    /\ UNCHANGED <<db, db0, save_in_place, soil_in_place, weather_df, invoked,
                   perr, depth_i, attempted, results>>
    /\ UNCHANGED mainvars

\* The fetch loop as it would be if an error ended it.
SoilFetchDepthStopsOnError ==
    /\ ppc = "fetch"
    /\ depth_i <= NumDepths
    /\ attempted' = attempted \cup {depth_i}
    /\ \/ /\ depth_i' = NumDepths + 1
          /\ UNCHANGED results
       \/ /\ \E pl \in Payloads(depth_i) : results' = Extend(results, depth_i, pl)
          /\ depth_i' = depth_i + 1
    /\ UNCHANGED <<ppc, db, db0, save_in_place, soil_in_place, weather_df,
                   invoked, perr, soil_df>>
    /\ UNCHANGED mainvars

\* Lines 27-52: one pass of the loop over the depths. An error of the
\* request is caught inside the loop and the depth is left out of results.
SoilFetchDepth ==
    /\ ppc = "fetch"
    /\ depth_i <= NumDepths
    /\ attempted' = attempted \cup {depth_i}
    /\ \/ UNCHANGED results
       \/ \E pl \in Payloads(depth_i) : results' = Extend(results, depth_i, pl)
    /\ depth_i' = depth_i + 1
    /\ UNCHANGED <<ppc, db, db0, save_in_place, soil_in_place, weather_df,
                   invoked, perr, soil_df>>
    /\ UNCHANGED mainvars

\* Lines 206-212, 176-197: with no payload at all get_data returns None;
\* otherwise the table is built and written. A write that raises is caught
\* and None is returned.
SoilExtract ==
    /\ ppc = "fetch"
    /\ depth_i = NumDepths + 1
    /\ LET t == IF results = EmptyFn THEN NoTable ELSE ExtractTable(results) IN
        \E written \in BOOLEAN :
            IF t.made /\ written
            THEN /\ soil_df' = t
                 /\ db' = IF soil_in_place THEN [db EXCEPT !["soil"] = "new"] ELSE db
            ELSE /\ soil_df' = NoTable
                 /\ UNCHANGED db
    /\ ppc' = "check"
    /\ UNCHANGED <<db0, save_in_place, soil_in_place, weather_df, invoked,
                   perr, depth_i, attempted, results>>
    /\ UNCHANGED mainvars

\* Lines 69-78: the climate file is looked for first, then the soil file.
PrepCheck ==
    /\ ppc = "check"
    /\ IF db["climate"] = "absent" THEN PrepRaise("FileNotFoundError", "climate")
       ELSE IF db["soil"] = "absent" THEN PrepRaise("FileNotFoundError", "soil")
       ELSE ppc' = "ok" /\ UNCHANGED perr
    /\ UNCHANGED <<db, db0, save_in_place, soil_in_place, weather_df, invoked,
                   depth_i, attempted, results, soil_df>>
    /\ UNCHANGED mainvars

NextPrep ==
    \/ PrepLoadConfig
    \/ PrepWeather
    \/ PrepSave
    \/ PrepSoilBranch
    \/ SoilRunFails
    \/ SoilFetchDepth
    \/ SoilExtract
    \/ PrepCheck

SpecPrep == InitPrep /\ [][NextPrep]_vars

\* ================================================================= claims
SearchReturned == pc = "search_returned"
InRange(v) == \A i \in DOMAIN v : ClipLo <= v[i] /\ v[i] <= ClipHi
IsPrefix(a, b) == Len(a) <= Len(b) /\ \A i \in 1..Len(a) : a[i] = b[i]

\* C1: when at least one candidate was evaluated, _find_start_smt returns one
\* of the drawn candidates unchanged: a candidate whose objective (the negated
\* mean yield) is least, that is whose yield is greatest, and among several
\* such candidates the one with the lowest index in the batch.
C1_ReturnsFirstBest ==
    (SearchReturned /\ rlist # <<>>) =>
        /\ Len(rlist) = Len(x0list)
        /\ \A j \in 1..Len(x0list) : rlist[j] = 0 - evald[x0list[j]].yld
        /\ \E i \in 1..Len(x0list) :
            /\ x0 = x0list[i]
            /\ \A j \in 1..Len(x0list) : evald[x0list[j]].yld <= evald[x0list[i]].yld
            /\ \A j \in 1..(i - 1) : evald[x0list[j]].yld < evald[x0list[i]].yld
            /\ \A j \in 1..(i - 1) : x0list[j] # x0

\* A tie between two different candidates, settled for the first.
C1_Witness ==
    /\ SearchReturned
    /\ Len(rlist) >= 2
    /\ rlist[1] = rlist[2]
    /\ x0list[1] # x0list[2]
    /\ x0 = x0list[1]

\* The serial loop of lines 168-171 run on the batch `tasks` with the
\* deterministic evaluator: the list it ends with.
RECURSIVE SerialLoop(_, _)
SerialLoop(tasks, acc) ==
    IF Len(acc) = Len(tasks) THEN acc
    ELSE SerialLoop(tasks, Append(acc, Objective(evald[tasks[Len(acc) + 1]])))

\* C2: for the same batch and a deterministic evaluator the search selects
\* the same vector on both paths: whether the results came from the worker
\* pool, whose tasks finish in any order, or from the sequential fallback,
\* the vector returned is the one the serial loop over the batch selects.
C2_SamePathsSameChoice ==
    (SearchReturned /\ rlist # <<>>) =>
        /\ rlist = SerialLoop(x0list, <<>>)
        /\ x0 = x0list[ArgMin(SerialLoop(x0list, <<>>))]

\* The pool delivered two different objective values, the better one second.
C2_Witness ==
    /\ SearchReturned
    /\ fallback = "none"
    /\ Len(rlist) = 2
    /\ rlist[2] < rlist[1]
    /\ x0 = x0list[2]

\* The search is over: it returned, or an exception left it.
SearchOver == SearchReturned \/ (pc = "error" /\ trace = <<"precheck", "search">>)

\* C3: if every candidate evaluation fails, in the pool and in the serial
\* loop alike, _find_start_smt does not raise: it returns the default vector
\* of length k with every component 50.
C3_AllFailReturnsDefault ==
    (/\ SearchOver
     /\ fallback = "candidate"
     /\ \A v \in DOMAIN evald : ~evald[v].ok) =>
        /\ SearchReturned
        /\ err = "none"
        /\ x0 = DefaultStart

\* C4: when the pool cannot be built or raises before it has delivered, the
\* except branch starts from an empty result list whatever the pool had
\* produced, keeps the batch that was drawn, evaluates one candidate per step
\* in index order, and the selection of lines 173-179 follows once every
\* candidate has a value.
C4_FallbackSerialSameBatch ==
    [][/\ (pc # "seq" /\ pc' = "seq") =>
            /\ pc \in {"pool", "starmap"}
            /\ rlist' = <<>>
            /\ x0list' = x0list
       /\ (pc = "seq" /\ pc' = "seq") =>
            /\ x0list' = x0list
            /\ Len(rlist) < Len(x0list)
            /\ nsim' = nsim + 1
            /\ x0list[Len(rlist) + 1] \in DOMAIN evald'
            /\ rlist' = Append(rlist, Objective(evald'[x0list[Len(rlist) + 1]]))
       /\ (pc = "seq" /\ pc' = "search_returned") =>
            /\ x0list' = x0list /\ rlist' = rlist
            /\ Len(rlist) = Len(x0list)
            /\ x0' = IF rlist = <<>> THEN DefaultStart ELSE x0list[ArgMin(rlist)]
      ]_vars

\* The pool failed after a worker had run a candidate; the serial loop then
\* ran both candidates again and the selection was made.
C4_Witness ==
    /\ SearchReturned
    /\ fallback = "backend"
    /\ Len(rlist) = 2
    /\ nsim >= 3

\* C5: only a failure of the pool itself takes the except branch; the
\* exception of one candidate raised by starmap does not.
C5_OnlyBackendTriggersFallback ==
    fallback \in {"none", "construct", "backend"}

\* C5 as amended: no exception raised inside the pool block reaches the
\* caller: a failure of the pool and the exception of a candidate raised by
\* starmap both take the except branch, which evaluates the whole batch again
\* from its first candidate; starmap delivers only when every task returned a
\* value; the exception of a candidate reaches the caller only when the
\* serial loop raises it.
C5_AnyPoolExceptionFallsBack ==
    [][/\ pc = "starmap" => pc' \in {"starmap", "select", "seq"}
       /\ (pc = "starmap" /\ pc' = "select") =>
            /\ DOMAIN wres = 1..Len(x0list)
            /\ \A i \in DOMAIN wres : wres[i].ok
       /\ (pc = "starmap" /\ pc' = "seq") => rlist' = <<>> /\ x0list' = x0list
       /\ (pc \in {"pool", "starmap", "seq", "select"} /\ pc' = "error") =>
            /\ pc = "seq"
            /\ fallback # "none"
            /\ err' = "SimError"
      ]_vars

\* A candidate failed in the pool; the serial loop evaluated the first
\* candidate again and then raised on the failing one.
C5_Witness ==
    /\ pc = "error"
    /\ err = "SimError"
    /\ fallback = "candidate"
    /\ Len(rlist) = 1
    /\ nsim = 4

\* C6: in one call the phases start in the order precondition check,
\* start-point search, refinement, clip, materialisation; each starts at most
\* once and only when every phase started before it has completed; a failure
\* ends the call with the exception at the caller, and nothing runs after it.
C6_LinearPhases ==
    /\ [](/\ IsPrefix(trace, PhaseOrder)
          /\ nfinished <= Len(trace)
          /\ Len(trace) <= nfinished + 1
          /\ (err # "none") <=> (pc = "error")
          /\ pc = "done" => (trace = PhaseOrder /\ nfinished = Len(PhaseOrder)))
    /\ [][/\ pc # "error"
          /\ trace' # trace =>
                /\ nfinished = Len(trace)
                /\ Len(trace) < Len(PhaseOrder)
                /\ trace' = Append(trace, PhaseOrder[Len(trace) + 1])
          /\ nfinished' \in {nfinished, nfinished + 1}
          /\ pc' = "error" => nfinished' = nfinished
         ]_vars

\* The call ran all five phases and returned.
C6_Witness ==
    /\ pc = "done"
    /\ trace = PhaseOrder
    /\ nfinished = 5
    /\ result.returned

C8_MalformedDateFailsAtParse ==
    ~(ValidDate(sim_start_date) /\ ValidDate(sim_end_date)) =>
        /\ nsim = 0
        /\ (pc = "error" /\ nfinished >= 1) =>
                (err = "ValueError" /\ trace = <<"precheck">>)

\* C9: the schedule written has exactly one row per day of the window, first
\* day to last day in calendar order; row i holds the simulator's i-th value
\* for every i up to the shorter of the two lengths and 0 for every i beyond
\* the simulator's values; values beyond the window are dropped.
C9_ScheduleAligned ==
    pc = "done" =>
        LET rows == schedule_file.rows
            m == Len(rows)
            n == Len(irr_day_values)
            day(i) == <<rows[i].Year, rows[i].Month, rows[i].Day>>
        IN  /\ schedule_file.exists
            /\ m = 0 <=> ~DateLE(sim_start_date, sim_end_date)
            /\ m > 0 => day(1) = sim_start_date /\ day(m) = sim_end_date
            /\ \A i \in 1..(m - 1) : day(i + 1) = NextDay(day(i))
            /\ \A i \in 1..m :
                /\ (i <= n) => rows[i].IrrDay = irr_day_values[i]
                /\ (i > n) => rows[i].IrrDay = 0

\* A window of three days and two simulator values, the second not zero.
C9_Witness ==
    /\ pc = "done"
    /\ Len(schedule_file.rows) = 3
    /\ Len(irr_day_values) = 2
    /\ irr_day_values[2] = 5
    /\ schedule_file.rows[3].IrrDay = 0

\* C10: the clip leaves a vector inside [0,100]^k as it is and maps every
\* vector into [0,100]^k, so that clipping again changes nothing; the vector
\* handed to the final simulation and the vector returned are that clipped
\* vector, whatever the refinement returned.
C10_ClipIntoRange ==
    /\ pc \in {"clipped", "simulated", "done"} =>
        /\ InRange(optimal_smts)
        /\ DOMAIN optimal_smts = DOMAIN refined
        /\ \A i \in DOMAIN refined :
            /\ (ClipLo <= refined[i] /\ refined[i] <= ClipHi) => optimal_smts[i] = refined[i]
            /\ refined[i] < ClipLo => optimal_smts[i] = ClipLo
            /\ refined[i] > ClipHi => optimal_smts[i] = ClipHi
        /\ clip(optimal_smts) = optimal_smts
    /\ final_smt # NoVec => (final_smt = optimal_smts /\ InRange(final_smt))
    /\ result.returned => (result.smts = final_smt /\ InRange(result.smts))

\* The refinement left the range on both sides and the call returned.
C10_Witness ==
    /\ pc = "done"
    /\ \E i \in DOMAIN refined : refined[i] < ClipLo
    /\ \E i \in DOMAIN refined : refined[i] > ClipHi
    /\ result.returned
    /\ InRange(result.smts)

\* C11: the schedule artifact is written at most once per call, by the last
\* step, after the search, the refinement, the clip and the final simulation
\* have completed; every other step, a failing one included, leaves the
\* artifact at the output location as it was.
C11_ScheduleWrittenLastOnly ==
    [][/\ pc # "done"
       /\ pc' # "done" => schedule_file' = schedule_file
       /\ pc' = "done" =>
            /\ pc = "simulated"
            /\ trace = PhaseOrder
            /\ nfinished = Len(PhaseOrder) - 1
            /\ err' = "none"
            /\ schedule_file'.exists
      ]_vars

\* The final simulation raised; the schedule of an earlier run is still there.
C11_Witness ==
    /\ pc = "error"
    /\ err = "SimError"
    /\ trace = PhaseOrder
    /\ schedule_file = OldFile

\* C12: from the start of the pool until it has delivered or failed, no step
\* writes the weather, soil or schedule files; the input files change only in
\* the precondition check and the schedule only in the materialisation.
C12_NoWritesWhilePoolRuns ==
    [][/\ pc = "starmap" => (files' = files /\ schedule_file' = schedule_file)
       /\ files' # files => (pc = "precheck" /\ wres = EmptyFn)
       /\ schedule_file' # schedule_file => (pc = "simulated" /\ wres = EmptyFn)
      ]_vars

\* One worker has returned, another is still running, the input files exist.
C12_Witness ==
    /\ pc = "starmap"
    /\ DOMAIN wres # {}
    /\ DOMAIN wres # 1..Len(x0list)
    /\ files = InputFiles

\* C13: the search returns a candidate only when every candidate of the
\* batch has been evaluated on the path that delivers the results: on the
\* pool path every task has returned, on the serial path the loop has passed
\* every candidate; a good early candidate does not end it.
C13_FullBarrier ==
    (pc \in {"select", "search_returned"}) =>
        /\ Len(rlist) = Len(x0list)
        /\ \A j \in 1..Len(x0list) : x0list[j] \in DOMAIN evald
        /\ fallback = "none" => DOMAIN wres = 1..Len(x0list)
        /\ fallback # "none" => wres = EmptyFn

\* The first task already had the best value; the second was waited for.
C13_Witness ==
    /\ SearchReturned
    /\ fallback = "none"
    /\ Len(rlist) = 2
    /\ rlist[1] < rlist[2]
    /\ x0 = x0list[1]

\* C14 as stated: the value the evaluator hands to the search for a candidate
\* is the mean yield itself, and the diagnostic call returns
\* (yield, mean seasonal irrigation, yield).
C14_EvaluatorReturnsYield ==
    /\ (SearchReturned /\ rlist # <<>>) =>
            \A j \in 1..Len(rlist) : rlist[j] = evald[x0list[j]].yld
    /\ \A y \in Yields, t \in TirrVals : eval_smt(y, t, TRUE) = <<y, t, y>>

\* C14 amended: the evaluator itself returns the negated mean yield in
\* non-diagnostic mode, and the search uses the returned values as they are:
\* the candidate with the least returned value, which has the greatest
\* yield, is selected. The diagnostic call returns
\* (yield, mean seasonal irrigation, yield), un-negated.
C14_EvaluatorNegatesReward ==
    /\ \A y \in Yields, t \in TirrVals :
            /\ eval_smt(y, t, FALSE) = 0 - y
            /\ eval_smt(y, t, TRUE) = <<y, t, y>>
    /\ (SearchReturned /\ rlist # <<>>) =>
            /\ \A j \in 1..Len(rlist) :
                    rlist[j] = eval_smt(evald[x0list[j]].yld, 0, FALSE)
            /\ \A j \in 1..Len(rlist) : rlist[j] < 0
            /\ x0 = x0list[ArgMin(rlist)]
            /\ \A j \in 1..Len(rlist) :
                    evald[x0].yld >= evald[x0list[j]].yld

\* Two candidates of different yield: the second, of greater yield and
\* smaller returned value, is the one selected.
C14_Witness ==
    /\ SearchReturned
    /\ Len(rlist) = 2
    /\ evald[x0list[1]].yld < evald[x0list[2]].yld
    /\ rlist[2] < rlist[1]
    /\ x0 = x0list[2]

\* C15 as stated: every simulator run of one call is made on the same
\* simulation start and end dates.
C15_OneWindowForAllRuns ==
    Cardinality(sim_windows) <= 1

\* C15 amended: every evaluation of the search and of the refinement runs
\* from 1 January of the start date's year to 31 December of the end date's
\* year; the final run alone runs from the start date to the end date as
\* they were given.
C15_WindowsPerPhase ==
    LET full == [start |-> <<sim_year1, 1, 1>>, end |-> <<sim_year2, 12, 31>>]
        given == [start |-> sim_start_date, end |-> sim_end_date]
        final_ran == \/ pc \in {"simulated", "done"}
                     \/ trace = PhaseOrder /\ err \in {"SimError", "OSError"}
    IN  /\ sim_windows \subseteq {full, given}
        /\ (nsim > 0 /\ ~final_ran) => sim_windows = {full}
        /\ final_ran => sim_windows = {full, given}
        /\ given \in sim_windows => final_ran

\* A call that ended well after runs on two different windows.
C15_Witness ==
    /\ pc = "done"
    /\ Cardinality(sim_windows) = 2
    /\ nsim >= 3
    /\ [start |-> sim_start_date, end |-> sim_end_date] \in sim_windows

\* C16: nothing is memoized. Every step that answers an evaluation request
\* (a pool task, a pass of the serial loop, an evaluation of the refiner)
\* and the final run make exactly one simulator run each, also for a vector
\* that was simulated before; nothing else runs the simulator, and a call
\* that reaches the final run has made one run per candidate, one per
\* refiner evaluation, and one more.
C16_EveryRequestSimulates ==
    [][/\ (pc = "starmap" /\ DOMAIN wres' # DOMAIN wres /\ pc' = "starmap")
            => nsim' = nsim + 1
       /\ (pc = "seq" /\ (Len(rlist') > Len(rlist) \/ err' = "SimError"))
            => nsim' = nsim + 1
       /\ iters' # iters => nsim' = nsim + 1
       /\ (pc = "clipped" /\ pc' \in {"simulated", "error"} /\ err' # "ValueError")
            => nsim' = nsim + 1
       /\ nsim' # nsim =>
            /\ nsim' = nsim + 1
            /\ pc \in {"starmap", "seq", "refine", "clipped"}
       /\ pc' = "simulated" => nsim' >= num_searches + iters + 1
      ]_vars

\* The serial loop has evaluated a batch holding the same vector twice, and
\* has run the simulator for each.
C16_Witness ==
    /\ pc = "seq"
    /\ Len(x0list) = 2
    /\ x0list[1] = x0list[2]
    /\ Len(rlist) = 2
    /\ fallback = "construct"
    /\ nsim = 2

Fetched(d, prop) ==
    IF d \in DOMAIN results THEN ExtractLayer(results[d])[prop] ELSE None

\* C17 as stated: profile_prep calls the weather provider only if the
\* climate file was absent and the soil provider only if the soil table was
\* absent, a pass that succeeds has called the provider of every artifact
\* that was absent, and when both artifacts were there it calls no provider
\* and leaves both files as they were.
C17_AcquireIffMissing ==
    /\ "weather" \in invoked => db0["climate"] = "absent"
    /\ "soil" \in invoked => db0["soil"] = "absent"
    /\ ppc = "ok" =>
            /\ db0["climate"] = "absent" => "weather" \in invoked
            /\ db0["soil"] = "absent" => "soil" \in invoked
    /\ (db0["climate"] # "absent" /\ db0["soil"] # "absent") =>
            /\ invoked = {}
            /\ db["climate"] = db0["climate"]
            /\ db["soil"] = db0["soil"]

\* C18: a soil table that is produced has one row per configured depth, in
\* the configured order and with the configured thickness, also for depths
\* whose fetch failed; a property fetched for at least one depth is non-null
\* in every row; and a row holds the fetched value wherever one was fetched.
C18_GapFilling ==
    soil_df.made =>
        /\ DOMAIN soil_df.rows = DepthIdx
        /\ \A d \in DepthIdx :
            /\ soil_df.rows[d].depth = depths[d]
            /\ soil_df.rows[d].thickness = depth_details[d]
        /\ \A prop \in df_properties :
            (\E d \in DepthIdx : Fetched(d, prop) # None)
                => \A d \in DepthIdx : soil_df.rows[d][prop] # None
        /\ \A d \in DepthIdx, prop \in df_properties :
            Fetched(d, prop) # None => soil_df.rows[d][prop] = Fetched(d, prop)

\* The fetch of the first depth failed, the second gave clay only, the
\* third sand and soc only: the table has all three for the first depth.
C18_Witness ==
    /\ soil_df.made
    /\ 1 \notin DOMAIN results
    /\ 2 \in DOMAIN results /\ Fetched(2, "sand") = None /\ Fetched(2, "clay") # None
    /\ soil_df.rows[1]["clay"] = Fetched(2, "clay")
    /\ soil_df.rows[1]["sand"] # None
    /\ soil_df.rows[2]["sand"] # None

\* The soil acquisition has run and the soil file is still absent.
SoilStillMissing ==
    /\ ppc \in {"ok", "raised"}
    /\ "soil" \in invoked
    /\ db["soil"] = "absent"

\* The parts of C19 on the fetch loop and on get_data: once the loop has
\* started every depth is attempted, whatever failed, and no exception of
\* the soil acquisition reaches profile_prep: the only exception after it
\* is the one raised by the final check.
SoilAcquisitionContained ==
    /\ (ppc # "fetch" /\ attempted # {}) => attempted = DepthIdx
    /\ ppc = "fetch" => (perr = NoExc /\ attempted = 1..(depth_i - 1))
    /\ ("soil" \in invoked /\ perr # NoExc) =>
            /\ perr.type = "FileNotFoundError"
            /\ perr.path \in {"climate", "soil"}
    /\ (ppc \in {"check", "ok", "raised"} /\ "soil" \in invoked /\ results = EmptyFn)
            => ~soil_df.made

\* C19 as stated: a failed fetch does not stop the other depths, get_data
\* does not raise, and whenever the soil table is still absent after the
\* acquisition profile_prep raises FileNotFoundError naming the soil path.
C19_SoilFailureNamesSoilPath ==
    /\ SoilAcquisitionContained
    /\ SoilStillMissing =>
            perr = [type |-> "FileNotFoundError", path |-> "soil"]

\* C19 amended: as stated, except that the FileNotFoundError names the
\* climate path when the climate file is absent as well, and the soil path
\* otherwise; in neither case does profile_prep report success.
C19_SoilFailureIsFileNotFound ==
    /\ SoilAcquisitionContained
    /\ SoilStillMissing =>
            /\ ppc = "raised"
            /\ perr.type = "FileNotFoundError"
            /\ perr.path = IF db["climate"] = "absent" THEN "climate" ELSE "soil"
    /\ ppc = "ok" => db["soil"] # "absent"

\* The first fetch failed, the others were made all the same, no table came
\* of them, and the error names the soil path.
C19_Witness ==
    /\ SoilStillMissing
    /\ 1 \notin DOMAIN results
    /\ DOMAIN results = 2..NumDepths
    /\ attempted = DepthIdx
    /\ ~soil_df.made
    /\ perr = [type |-> "FileNotFoundError", path |-> "soil"]

====
